---- MODULE Spec2Model ----
(***************************************************************************)
(* A model of lib/sync.js (syncToGitHub): one sync of a flat local         *)
(* directory into a path of a repository held by a content-addressed       *)
(* object store (blobs, trees, commits, branch references).                *)
(*                                                                         *)
(* lib/sync.js holds two generations of the module in one file; the        *)
(* function declarations of the second generation (lines 371-880) are the  *)
(* ones in force, and they are the ones modelled here.                     *)
(*                                                                         *)
(* Hashes are indexes into the store's object tables; the tables intern    *)
(* their content, which is what makes the store content-addressed.         *)
(***************************************************************************)
EXTENDS Integers, Sequences, FiniteSets, TLC

(***************************************************************************)
(* Bounds of the model.                                                    *)
(***************************************************************************)
\* Number of syncs run one after the other with the same options.
MaxRuns == 2

(***************************************************************************)
(* Values.                                                                 *)
(***************************************************************************)
\* An option the caller left out (typeof !== 'string').
Undefined == "<undefined>"
\* The value of a skipped local subdirectory in the children list.
Null == [isNull |-> TRUE]
\* No object: the value of a variable that holds nothing yet.
None == [none |-> TRUE]

Range(s) == {s[i] : i \in DOMAIN s}

\* The order the store lists the entries of a tree in (by path).
PathOrder ==
  <<"README", "a", "a.txt", "b", "b.txt", "d", "k.txt", "m", "n", "old.txt",
    "sub", "x.txt", "z">>

Rank(p) == CHOOSE i \in DOMAIN PathOrder : PathOrder[i] = p

RECURSIVE SortByPath(_)
SortByPath(S) ==
  IF S = {} THEN <<>>
  ELSE LET e == CHOOSE x \in S : \A y \in S : Rank(x.path) <= Rank(y.path)
       IN  <<e>> \o SortByPath(S \ {e})

\* The four fields of a tree entry that a createTree request carries.
EntryFields == {"path", "mode", "type", "sha"}

Entry(p, m, t, s) == [path |-> p, mode |-> m, type |-> t, sha |-> s]

(***************************************************************************)
(* The repository the syncs start from.                                    *)
(*   root (4): a -> tree 3, README -> blob 1                               *)
(*   a    (3): b -> tree 2, d -> tree 1, x.txt -> blob 4                   *)
(*   a/b  (2): a.txt -> blob 3 (executable), old.txt -> blob 2,            *)
(*             sub -> tree 1                                               *)
(*   a/d  (1): k.txt -> blob 4      (also a/b/sub: a shared subtree)       *)
(* Commit 1 (root 4) is the head of master; commit 2 (root 4, parent 1) is *)
(* the head of dev, and of test when that branch exists.                   *)
(***************************************************************************)
InitBlobs == <<"readme", "old", "A0", "k">>

InitTrees ==
  << {Entry("k.txt", "100644", "blob", 4)},
     {Entry("a.txt", "100755", "blob", 3), Entry("old.txt", "100644", "blob", 2),
      Entry("sub", "040000", "tree", 1)},
     {Entry("b", "040000", "tree", 2), Entry("d", "040000", "tree", 1),
      Entry("x.txt", "100644", "blob", 4)},
     {Entry("a", "040000", "tree", 3), Entry("README", "100644", "blob", 1)} >>

InitCommits ==
  << [tree |-> 4, parents |-> <<>>, message |-> "init"],
     [tree |-> 4, parents |-> <<1>>, message |-> "second"] >>

Branches == {"master", "dev", "test"}

\* The branch references a behaviour may start from; 0 is an absent branch.
InitRefs ==
  { [b \in Branches |-> IF b = "master" THEN 1 ELSE IF b = "dev" THEN 2 ELSE 0],
    [b \in Branches |-> IF b = "master" THEN 1 ELSE 2],
    [b \in Branches |-> IF b = "master" THEN 1 ELSE 0] }

(***************************************************************************)
(* The local file system: directory name -> listing, in readdir order.     *)
(***************************************************************************)
File(n, d, c) == [name |-> n, isDirectory |-> d, content |-> c]

LocalDirs == {"dist", "mixed", "same"}

Listing(localPath) ==
  IF localPath = "dist"
  THEN <<File("a.txt", FALSE, "A1"), File("b.txt", FALSE, "k")>>
  ELSE IF localPath = "mixed"
  THEN <<File("a.txt", FALSE, "A0"), File("sub", TRUE, "")>>
  ELSE <<File("k.txt", FALSE, "k")>>

(***************************************************************************)
(* The options a caller may pass.  repoPath is the string cut at its       *)
(* slashes: "a/b" is <<"a", "b">>, "/a/b/" is <<"", "a", "b", "">>, "" is  *)
(* <<"">>.                                                                 *)
(***************************************************************************)
NoPath == <<Undefined>>

RepoPaths ==
  { <<"">>, <<"", "a", "b", "">>, <<"a", "n">>, <<"a", "x.txt">>,
    <<"a", "b", "sub">>, <<"n", "m">>, <<"README", "z">> }

CompleteOptions ==
  [ user : {"Asana"}, repo : {"repo"}, localPath : LocalDirs,
    repoPath : RepoPaths, message : {"msg"},
    branch : {Undefined, "test"}, baseBranch : {Undefined, "dev"},
    createBranch : BOOLEAN, createPullRequest : BOOLEAN,
    preserveRepoFiles : BOOLEAN ]

\* Options that lack one of the required strings.
IncompleteOptions ==
  LET o == [user |-> "Asana", repo |-> "repo", localPath |-> "dist",
            repoPath |-> <<"a", "n">>, message |-> "msg",
            branch |-> "test", baseBranch |-> Undefined,
            createBranch |-> TRUE, createPullRequest |-> FALSE,
            preserveRepoFiles |-> FALSE]
  IN  { [o EXCEPT !.user = Undefined], [o EXCEPT !.repo = Undefined],
        [o EXCEPT !.localPath = Undefined], [o EXCEPT !.repoPath = NoPath],
        [o EXCEPT !.message = Undefined] }

\* A variant of the call of the entry point that passes a message.
EntryPointOptionsWithMessage ==
  { [user |-> "Asana", repo |-> "node-sync-to-github", localPath |-> "test",
     repoPath |-> <<"dist", "abc", "def">>, message |-> "msg",
     branch |-> "test", baseBranch |-> Undefined,
     createBranch |-> FALSE, createPullRequest |-> FALSE,
     preserveRepoFiles |-> FALSE] }

\* The options of the call the entry point makes when it is loaded
\* (index.js, lines 6-14); what it leaves out is undefined, the flags
\* count as false.
EntryPointOptions ==
  { [user |-> "Asana", repo |-> "node-sync-to-github", localPath |-> "test",
     repoPath |-> <<"dist", "abc", "def">>, message |-> Undefined,
     branch |-> "test", baseBranch |-> Undefined,
     createBranch |-> FALSE, createPullRequest |-> FALSE,
     preserveRepoFiles |-> FALSE] }

Options == CompleteOptions \cup IncompleteOptions \cup EntryPointOptions

VARIABLES
  blobs,          \* store: blob hash -> content
  trees,          \* store: tree hash -> set of entries
  commits,        \* store: commit hash -> commit
  refs,           \* store: branch name -> commit hash, 0 when absent
  pulls,          \* store: the pull requests, as <<base, head>>
  options,        \* the options object of the sync
  run,            \* number of the sync being run
  pc,             \* the step the sync is at
  result,         \* "pending", "ok" or the error the sync failed with
  branch,         \* the reference record of the target branch
  baseBranch,     \* createBranch: the reference record of baseBranch
  commit,         \* the latest commit of the branch
  heap,           \* the tree objects the sync holds, by reference
  treesForPath,   \* references into heap: the chain of trees
  remainingPath,  \* existingTreesForPath: the path parts still to resolve
  treeCache,      \* existingTreesForPath: tree hash -> reference into heap
  existingTree,   \* createNewTreeForPath: reference of the tree at repoPath
  filenames,      \* createTreeForSingleDir: the listing of localPath
  fileState,      \* per file: "stat", "read", "blob", "done" or "failed"
  children,       \* per file: the tree entry made for it, or Null
  pathExists,     \* createTreeForSingleDir: names of the files with a blob
  rebuildParts,   \* createTreeForPath: its pathParts argument
  newRootTree,    \* reference of the rebuilt root tree
  newCommit,      \* the commit record createCommit returned
  log,            \* the requests of this sync (store requests and readdir),
                  \* in the order issued
  runs            \* what the finished syncs did

storeVars == <<blobs, trees, commits, refs, pulls>>
branchVars == <<branch, baseBranch, commit>>
pathVars == <<heap, treesForPath, remainingPath, treeCache, existingTree>>
fileVars == <<filenames, fileState, children, pathExists>>
rebuildVars == <<rebuildParts, newRootTree, newCommit>>
vars ==
  <<storeVars, options, run, pc, result, branchVars, pathVars, fileVars,
    rebuildVars, log, runs>>

(***************************************************************************)
(* The object store, as the requests of gitData see it.                    *)
(***************************************************************************)
\* getReference / updateReference name a branch 'heads/<name>',
\* createReference names it 'refs/heads/<name>'.
headsRef(name) == <<"heads", name>>
refsHeadsRef(name) == <<"refs", "heads", name>>
storeBranchOf(ref) == IF ref[1] = "refs" THEN ref[3] ELSE ref[2]

\* The reference record the store answers with.
storeReference(name, sha) ==
  [ref |-> refsHeadsRef(name), object |-> [type |-> "commit", sha |-> sha]]

\* The commit record the store answers with.
storeCommit(table, sha) ==
  [sha |-> sha, tree |-> [sha |-> table[sha].tree],
   parents |-> table[sha].parents, message |-> table[sha].message]

\* An entry as the store lists it: the four fields and the store's own url.
storeListed(e) ==
  [path |-> e.path, mode |-> e.mode, type |-> e.type, sha |-> e.sha,
   url |-> <<e.type, e.sha>>]

\* The tree record the store answers with, for a tree of the table table.
storeTree(table, sha) ==
  LET sorted == SortByPath(table[sha])
  IN  [sha |-> sha, tree |-> [i \in DOMAIN sorted |-> storeListed(sorted[i])]]

\* What the store keeps of a createTree request: its entries, as a set.
storeEntries(list) == {e \in Range(list) : "path" \in DOMAIN e}

\* Content addressing: the hash of a content already in a table is the
\* hash it has there; a new content gets the next hash.
storeHash(table, content) ==
  IF \E h \in DOMAIN table : table[h] = content
  THEN CHOOSE h \in DOMAIN table : table[h] = content
  ELSE Len(table) + 1

storePut(table, content) ==
  IF \E h \in DOMAIN table : table[h] = content THEN table
  ELSE Append(table, content)

\* A request and its outcome, as the log keeps it.
Request(op, by, arg, ok, res) ==
  [op |-> op, by |-> by, arg |-> arg, ok |-> ok, res |-> res]

\* The sync ends with error err.
Throw(err) == pc' = "done" /\ result' = err

(***************************************************************************)
(* The state before the first sync.                                        *)
(***************************************************************************)
NoCache == [h \in {} |-> 0]

Init ==
  /\ blobs = InitBlobs
  /\ trees = InitTrees
  /\ commits = InitCommits
  /\ refs \in InitRefs
  /\ pulls = {}
  /\ options \in Options
  /\ run = 1
  /\ pc = "validateOptions"
  /\ result = "pending"
  /\ branch = None
  /\ baseBranch = None
  /\ commit = None
  /\ heap = <<>>
  /\ treesForPath = <<>>
  /\ remainingPath = <<>>
  /\ treeCache = NoCache
  /\ existingTree = 0
  /\ filenames = <<>>
  /\ fileState = <<>>
  /\ children = <<>>
  /\ pathExists = {}
  /\ rebuildParts = <<>>
  /\ newRootTree = 0
  /\ newCommit = None
  /\ log = <<>>
  /\ runs = <<>>

(***************************************************************************)
(* syncToGitHub, lines 412-422: validation and the path parts.             *)
(***************************************************************************)
\* options.x || 'master'
orMaster(value) == IF value = Undefined \/ value = "" THEN "master" ELSE value

withDefaults(o) ==
  [o EXCEPT !.branch = orMaster(o.branch),
            !.baseBranch = orMaster(o.baseBranch)]

\* A variant without the check of the commit message.
validationErrorNoMessage(o) ==
  IF o.user = Undefined THEN "Must pass owner of repo in user"
  ELSE IF o.repo = Undefined THEN "Must pass repo name in repo"
  ELSE IF o.localPath = Undefined
    THEN "Must pass local path to sync from in localPath"
  ELSE IF o.repoPath = NoPath
    THEN "Must pass path within repo to sync to in repoPath"
  ELSE IF o.baseBranch = o.branch /\ o.createBranch
    THEN "Cannot create branch if it is the same as baseBranch"
  ELSE IF o.baseBranch = o.branch /\ o.createPullRequest
    THEN "Cannot create pull request when branch and baseBranch are the same"
  ELSE "ok"

\* The error validateOptions throws for options o (defaults applied),
\* or "ok".
validationError(o) ==
  IF o.user = Undefined THEN "Must pass owner of repo in user"
  ELSE IF o.repo = Undefined THEN "Must pass repo name in repo"
  ELSE IF o.localPath = Undefined
    THEN "Must pass local path to sync from in localPath"
  ELSE IF o.repoPath = NoPath
    THEN "Must pass path within repo to sync to in repoPath"
  ELSE IF o.message = Undefined THEN "Must pass commit message in message"
  ELSE IF o.baseBranch = o.branch /\ o.createBranch
    THEN "Cannot create branch if it is the same as baseBranch"
  ELSE IF o.baseBranch = o.branch /\ o.createPullRequest
    THEN "Cannot create pull request when branch and baseBranch are the same"
  ELSE "ok"

\* _.compact(parts): the non-empty parts.
compact(parts) == SelectSeq(parts, LAMBDA part : part # "")

\* var pathParts = _.compact(options.repoPath.split(slash))
pathParts == compact(options.repoPath)

validateOptions ==
  /\ pc = "validateOptions"
  /\ options' = withDefaults(options)
  /\ IF validationError(options') = "ok"
     THEN pc' = "getBranchOrNull" /\ UNCHANGED result
     ELSE Throw(validationError(options'))
  /\ UNCHANGED <<storeVars, run, branchVars, pathVars, fileVars, rebuildVars,
                 log, runs>>

(***************************************************************************)
(* Branch resolution, lines 430-439, 761-786.                              *)
(***************************************************************************)
\* A variant that creates the branch whether asked to or not.
onMissingBranchCreate(o) == "createBranch"

\* Lines 431-438: what follows a branch that was not found.
onMissingBranch(o) == IF o.createBranch THEN "createBranch" ELSE "throw"

\* A variant whose catch turns every error into null.
getBranchOrNullAnyError ==
  /\ pc = "getBranchOrNull"
  /\ LET ref == headsRef(options.branch)
         sha == refs[storeBranchOf(ref)]
     IN  \/ /\ sha # 0
            /\ log' = Append(log, Request("getReference", "getBranchOrNull",
                                          [ref |-> ref], TRUE, sha))
            /\ branch' = storeReference(storeBranchOf(ref), sha)
            /\ pc' = "getLatestCommit"
            /\ UNCHANGED result
         \/ /\ log' = Append(log, Request("getReference", "getBranchOrNull",
                                          [ref |-> ref], FALSE,
                                          IF sha = 0 THEN 404 ELSE 500))
            /\ UNCHANGED branch
            /\ IF options.createBranch
               THEN pc' = "createBranch" /\ UNCHANGED result
               ELSE Throw("Branch does not exist")
  /\ UNCHANGED <<storeVars, options, run, baseBranch, commit, pathVars,
                 fileVars, rebuildVars, runs>>

\* getBranchOrNull: a 404 is turned into null, any other error propagates.
\* With null, createBranch is next when options.createBranch is set, and
\* the sync throws otherwise.
getBranchOrNull ==
  /\ pc = "getBranchOrNull"
  /\ LET ref == headsRef(options.branch)
         sha == refs[storeBranchOf(ref)]
     IN  \/ /\ sha # 0
            /\ log' = Append(log, Request("getReference", "getBranchOrNull",
                                          [ref |-> ref], TRUE, sha))
            /\ branch' = storeReference(storeBranchOf(ref), sha)
            /\ pc' = "getLatestCommit"
            /\ UNCHANGED result
         \/ /\ sha = 0
            /\ log' = Append(log, Request("getReference", "getBranchOrNull",
                                          [ref |-> ref], FALSE, 404))
            /\ UNCHANGED branch
            /\ IF onMissingBranch(options) = "createBranch"
               THEN pc' = "createBranch" /\ UNCHANGED result
               ELSE Throw("Branch does not exist")
         \/ /\ log' = Append(log, Request("getReference", "getBranchOrNull",
                                          [ref |-> ref], FALSE, 500))
            /\ UNCHANGED branch
            /\ Throw("getReference failed")
  /\ UNCHANGED <<storeVars, options, run, baseBranch, commit, pathVars,
                 fileVars, rebuildVars, runs>>

\* A variant that always forks from master.
baseRefMaster(o) == headsRef("master")

\* Line 780: the reference createBranch reads.
baseRef(o) == headsRef(o.baseBranch)

\* createBranch, first request: the reference of baseBranch.
createBranch ==
  /\ pc = "createBranch"
  /\ LET ref == baseRef(options)
         sha == refs[storeBranchOf(ref)]
     IN  \/ /\ sha # 0
            /\ log' = Append(log, Request("getReference", "createBranch",
                                          [ref |-> ref], TRUE, sha))
            /\ baseBranch' = storeReference(storeBranchOf(ref), sha)
            /\ pc' = "createReference"
            /\ UNCHANGED result
         \/ /\ log' = Append(log, Request("getReference", "createBranch",
                                          [ref |-> ref], FALSE,
                                          IF sha = 0 THEN 404 ELSE 500))
            /\ UNCHANGED baseBranch
            /\ Throw("getReference failed")
  /\ UNCHANGED <<storeVars, options, run, branch, commit, pathVars, fileVars,
                 rebuildVars, runs>>

\* Lines 781-784: the createReference request of createBranch.
referenceCreate(name, base) ==
  [ref |-> refsHeadsRef(name), sha |-> base.object.sha]

\* createBranch, second request: createReference at baseBranch's commit.
createReference ==
  /\ pc = "createReference"
  /\ LET arg == referenceCreate(options.branch, baseBranch)
         ref == arg.ref
     IN  \/ /\ refs[storeBranchOf(ref)] = 0
            /\ log' = Append(log, Request("createReference", "createBranch",
                                          arg, TRUE, arg.sha))
            /\ refs' = [refs EXCEPT ![storeBranchOf(ref)] = arg.sha]
            /\ branch' = storeReference(storeBranchOf(ref), arg.sha)
            /\ pc' = "getLatestCommit"
            /\ UNCHANGED result
         \/ /\ log' = Append(log, Request("createReference", "createBranch",
                                          arg, FALSE, 500))
            /\ UNCHANGED <<refs, branch>>
            /\ Throw("createReference failed")
  /\ UNCHANGED <<blobs, trees, commits, pulls, options, run, baseBranch,
                 commit, pathVars, fileVars, rebuildVars, runs>>

\* getLatestCommit: the commit the branch record points to.
getLatestCommit ==
  /\ pc = "getLatestCommit"
  /\ LET sha == branch.object.sha
     IN  \/ /\ sha \in DOMAIN commits
            /\ log' = Append(log, Request("getCommit", "getLatestCommit",
                                          [sha |-> sha], TRUE, sha))
            /\ commit' = storeCommit(commits, sha)
            /\ pc' = "getRootTree"
            /\ UNCHANGED result
         \/ /\ log' = Append(log, Request("getCommit", "getLatestCommit",
                                          [sha |-> sha], FALSE, 500))
            /\ UNCHANGED commit
            /\ Throw("getCommit failed")
  /\ UNCHANGED <<storeVars, options, run, branch, baseBranch, pathVars,
                 fileVars, rebuildVars, runs>>

(***************************************************************************)
(* Path resolution, lines 441-443, 800-844.                                *)
(***************************************************************************)
\* _.find: the first of the indexes (those of the elements that pass the
\* test), 0 if there is none.
findIndex(passing) ==
  IF passing = {} THEN 0
  ELSE CHOOSE i \in passing : \A j \in passing : i <= j

\* A variant that takes the child named path whatever its type.
nextChildInfo(tree, path) ==
  findIndex({i \in DOMAIN tree.tree : tree.tree[i].path = path})

\* existingTreesForPath, lines 811-813: the child of tree that is a tree
\* and is named path; 0 if there is none.
nextTreeInfo(tree, path) ==
  findIndex({i \in DOMAIN tree.tree :
               tree.tree[i].type = "tree" /\ tree.tree[i].path = path})

\* A variant that leaves the cache as it is.
cachePutNothing(cache, sha, ref) == cache

\* treeCache[sha] = ref
cachePut(cache, sha, ref) ==
  [h \in DOMAIN cache \cup {sha} |-> IF h = sha THEN ref ELSE cache[h]]

\* gitData('getTree', { sha: commit.tree.sha }), then the call of
\* existingTreesForPath on the root tree.
getRootTree ==
  /\ pc = "getRootTree"
  /\ LET sha == commit.tree.sha
     IN  \/ /\ sha \in DOMAIN trees
            /\ log' = Append(log, Request("getTree", "syncToGitHub",
                                          [sha |-> sha], TRUE, sha))
            /\ heap' = Append(heap, storeTree(trees, sha))
            /\ treesForPath' = <<Len(heap) + 1>>
            /\ remainingPath' = pathParts
            /\ treeCache' = NoCache
            /\ pc' = "existingTreesForPath"
            /\ UNCHANGED result
         \/ /\ log' = Append(log, Request("getTree", "syncToGitHub",
                                          [sha |-> sha], FALSE, 500))
            /\ UNCHANGED <<heap, treesForPath, remainingPath, treeCache>>
            /\ Throw("getTree failed")
  /\ UNCHANGED <<storeVars, options, run, branchVars, existingTree, fileVars,
                 rebuildVars, runs>>

\* getTree, lines 836-844: TRUE when the tree comes from the cache.
getTreeCached(cache, treeSha) == treeSha \in DOMAIN cache

\* One level of existingTreesForPath: the tree reached last is put in the
\* cache; the walk ends when no part is left or the next part names no
\* tree; otherwise the next tree is taken from the cache (a copy) or read
\* from the store, and the walk goes on from it.
existingTreesForPath ==
  /\ pc = "existingTreesForPath"
  /\ LET rootRef == treesForPath[Len(treesForPath)]
         rootTree == heap[rootRef]
         cache == cachePut(treeCache, rootTree.sha, rootRef)
         next == IF remainingPath = <<>> THEN 0
                 ELSE nextTreeInfo(rootTree, remainingPath[1])
         sha == rootTree.tree[next].sha
     IN  /\ treeCache' = cache
         /\ IF next = 0
            THEN /\ pc' = "createNewTreeForPath"
                 /\ UNCHANGED <<heap, treesForPath, remainingPath, result, log>>
            ELSE IF getTreeCached(cache, sha)
            THEN /\ heap' = Append(heap, heap[cache[sha]])
                 /\ treesForPath' = Append(treesForPath, Len(heap) + 1)
                 /\ remainingPath' = Tail(remainingPath)
                 /\ UNCHANGED <<pc, result, log>>
            ELSE \/ /\ sha \in DOMAIN trees
                    /\ log' = Append(log, Request("getTree", "getTree",
                                                  [sha |-> sha], TRUE, sha))
                    /\ heap' = Append(heap, storeTree(trees, sha))
                    /\ treesForPath' = Append(treesForPath, Len(heap) + 1)
                    /\ remainingPath' = Tail(remainingPath)
                    /\ UNCHANGED <<pc, result>>
                 \/ /\ log' = Append(log, Request("getTree", "getTree",
                                                  [sha |-> sha], FALSE, 500))
                    /\ UNCHANGED <<heap, treesForPath, remainingPath>>
                    /\ Throw("getTree failed")
  /\ UNCHANGED <<storeVars, options, run, branchVars, existingTree, fileVars,
                 rebuildVars, runs>>

(***************************************************************************)
(* createNewTreeForPath, lines 643-660.                                    *)
(***************************************************************************)
\* A variant that never takes the root for the target.
targetExistsBelowRoot(chain, parts) ==
  parts # <<>> /\ Len(chain) = Len(parts) + 1

\* treesForPath.length === pathParts.length + 1
targetExists(chain, parts) == Len(chain) = Len(parts) + 1

\* A variant that lets a chain that is too short pass.
parentExistsOrShorter(chain, parts) == Len(chain) <= Len(parts)

\* treesForPath.length === pathParts.length, after the splice
parentExists(chain, parts) == Len(chain) = Len(parts)

\* A variant that merges whenever the target exists.
baseTreeAlways == existingTree

\* (existingTree && options.preserveRepoFiles) ? existingTree : null
baseTree == IF existingTree # 0 /\ options.preserveRepoFiles
            THEN existingTree ELSE 0

\* A variant that reads the existing tree with slice(-1), which leaves it
\* in the chain, and goes on with a chain of either length.
createNewTreeForPathStale ==
  /\ pc = "createNewTreeForPath"
  /\ existingTree' = IF targetExists(treesForPath, pathParts)
                     THEN treesForPath[Len(treesForPath)] ELSE existingTree
  /\ IF Len(treesForPath) >= Len(pathParts)
     THEN pc' = "readdir" /\ UNCHANGED result
     ELSE Throw("Could not find existing parent dir for repo path")
  /\ UNCHANGED <<storeVars, options, run, branchVars, heap, treesForPath,
                 remainingPath, treeCache, fileVars, rebuildVars, log, runs>>

createNewTreeForPath ==
  /\ pc = "createNewTreeForPath"
  /\ IF targetExists(treesForPath, pathParts)
     THEN /\ existingTree' = treesForPath[Len(treesForPath)]
          /\ treesForPath' = SubSeq(treesForPath, 1, Len(treesForPath) - 1)
     ELSE UNCHANGED <<existingTree, treesForPath>>
  /\ IF parentExists(treesForPath', pathParts)
     THEN pc' = "readdir" /\ UNCHANGED result
     ELSE Throw("Could not find existing parent dir for repo path")
  /\ UNCHANGED <<storeVars, options, run, branchVars, heap, remainingPath,
                 treeCache, fileVars, rebuildVars, log, runs>>

(***************************************************************************)
(* createTreeForSingleDir, lines 582-629.  The files of the listing are    *)
(* handled concurrently, each through stat, readFile and createBlob;       *)
(* Promise.all rejects at the first failure while the other files go on.   *)
(***************************************************************************)
\* A variant in which the failure of a file is let pass.
RejectSwallowed(err) == UNCHANGED <<pc, result>>

\* The sync fails with err unless it has failed already.
Reject(err) ==
  IF pc = "files" THEN Throw(err) ELSE UNCHANGED <<pc, result>>

\* A variant that lists the local directory as soon as the branch is
\* resolved, before the path is looked up in the repository.
readdirEarly ==
  /\ pc = "getLatestCommit"
  /\ log' = Append(log, Request("readdir", "createTreeForSingleDir",
                                [path |-> options.localPath], TRUE, 0))
  /\ filenames' = Listing(options.localPath)
  /\ fileState' = [i \in DOMAIN filenames' |-> "stat"]
  /\ children' = [i \in DOMAIN filenames' |-> None]
  /\ pathExists' = {}
  /\ pc' = "files"
  /\ UNCHANGED <<result, storeVars, options, run, branchVars, pathVars,
                 rebuildVars, runs>>

readdir ==
  /\ pc = "readdir"
  /\ \/ /\ log' = Append(log, Request("readdir", "createTreeForSingleDir",
                                      [path |-> options.localPath], TRUE, 0))
        /\ filenames' = Listing(options.localPath)
        /\ fileState' = [i \in DOMAIN filenames' |-> "stat"]
        /\ children' = [i \in DOMAIN filenames' |-> None]
        /\ pathExists' = {}
        /\ pc' = "files"
        /\ UNCHANGED result
     \/ /\ log' = Append(log, Request("readdir", "createTreeForSingleDir",
                                      [path |-> options.localPath], FALSE, 0))
        /\ UNCHANGED fileVars
        /\ Throw("readdir failed")
  /\ UNCHANGED <<storeVars, options, run, branchVars, pathVars, rebuildVars,
                 runs>>

\* fs.stat of file i: a directory is skipped, its child is null.  Of the
\* reads of the files the log keeps the failed ones.
stat(i) ==
  /\ fileState[i] = "stat"
  /\ \/ /\ IF filenames[i].isDirectory
           THEN /\ fileState' = [fileState EXCEPT ![i] = "done"]
                /\ children' = [children EXCEPT ![i] = Null]
           ELSE /\ fileState' = [fileState EXCEPT ![i] = "read"]
                /\ UNCHANGED children
        /\ UNCHANGED <<pc, result, log>>
     \/ /\ fileState' = [fileState EXCEPT ![i] = "failed"]
        /\ log' = Append(log, Request("stat", "createTreeForSingleDir",
                                      [path |-> filenames[i].name], FALSE, 0))
        /\ UNCHANGED children
        /\ Reject("stat failed")
  /\ UNCHANGED <<storeVars, options, run, branchVars, pathVars, filenames,
                 pathExists, rebuildVars, runs>>

readFile(i) ==
  /\ fileState[i] = "read"
  /\ \/ /\ fileState' = [fileState EXCEPT ![i] = "blob"]
        /\ UNCHANGED <<pc, result, log>>
     \/ /\ fileState' = [fileState EXCEPT ![i] = "failed"]
        /\ log' = Append(log, Request("readFile", "createTreeForSingleDir",
                                      [path |-> filenames[i].name], FALSE, 0))
        /\ Reject("readFile failed")
  /\ UNCHANGED <<storeVars, options, run, branchVars, pathVars, filenames,
                 children, pathExists, rebuildVars, runs>>

\* The tree entry made for a local file, lines 609-614.
blobEntry(filename, sha) == Entry(filename, "100644", "blob", sha)

createBlob(i) ==
  /\ fileState[i] = "blob"
  /\ LET content == filenames[i].content
         sha == storeHash(blobs, content)
     IN  \/ /\ log' = Append(log, Request("createBlob", "createTreeForSingleDir",
                                          [content |-> content], TRUE, sha))
            /\ blobs' = storePut(blobs, content)
            /\ pathExists' = pathExists \cup {filenames[i].name}
            /\ children' = [children EXCEPT
                              ![i] = blobEntry(filenames[i].name, sha)]
            /\ fileState' = [fileState EXCEPT ![i] = "done"]
            /\ UNCHANGED <<pc, result>>
         \/ /\ log' = Append(log, Request("createBlob", "createTreeForSingleDir",
                                          [content |-> content], FALSE, 500))
            /\ fileState' = [fileState EXCEPT ![i] = "failed"]
            /\ UNCHANGED <<blobs, pathExists, children>>
            /\ Reject("createBlob failed")
  /\ UNCHANGED <<trees, commits, refs, pulls, options, run, branchVars,
                 pathVars, filenames, rebuildVars, runs>>

\* A variant that sends the children as they are, the fields the store
\* added on read included.
treeChildrenUnpicked(tree) == tree.tree

\* treeChildrenForCreateRequest, lines 714-718: the four fields of each
\* child.
treeChildrenForCreateRequest(tree) ==
  [i \in DOMAIN tree.tree |->
     [f \in (DOMAIN tree.tree[i]) \cap EntryFields |-> tree.tree[i][f]]]

\* A variant that brings in every child of the base tree.
broughtInUnfiltered(base, exists) == treeChildrenForCreateRequest(base)

\* The children of the base tree that are brought into the new tree,
\* lines 623-625.
broughtIn(base, exists) ==
  SelectSeq(treeChildrenForCreateRequest(base),
            LAMBDA child : child.path \notin exists)

\* The entry list of the new tree, lines 618-627.
leafChildren(made, base, exists) ==
  IF base # 0 THEN made \o broughtIn(heap[base], exists) ELSE made

\* A variant that does not wait for all files: the request is sent as
\* soon as one file is done.
createTreeForSingleDirEager ==
  /\ pc = "files"
  /\ \E i \in DOMAIN fileState : fileState[i] = "done"
  /\ LET list == leafChildren(children, baseTree, pathExists)
         content == storeEntries(list)
         sha == storeHash(trees, content)
     IN  /\ log' = Append(log, Request("createTree", "createTreeForSingleDir",
                                       [tree |-> list], TRUE, sha))
         /\ trees' = storePut(trees, content)
         /\ heap' = Append(heap, storeTree(trees', sha))
         /\ treesForPath' = Append(treesForPath, Len(heap) + 1)
         /\ rebuildParts' = pathParts
         /\ pc' = "createTreeForPath"
  /\ UNCHANGED <<result, blobs, commits, refs, pulls, options, run,
                 branchVars, remainingPath, treeCache, existingTree, fileVars,
                 newRootTree, newCommit, runs>>

\* The createTree request of createTreeForSingleDir, issued once every
\* file is done, and then the first call of createTreeForPath
\* (createNewTreeForPath, lines 661-664).
createTreeForSingleDir ==
  /\ pc = "files"
  /\ \A i \in DOMAIN fileState : fileState[i] = "done"
  /\ LET list == leafChildren(children, baseTree, pathExists)
         content == storeEntries(list)
         sha == storeHash(trees, content)
     IN  \/ /\ log' = Append(log, Request("createTree", "createTreeForSingleDir",
                                          [tree |-> list], TRUE, sha))
            /\ trees' = storePut(trees, content)
            /\ heap' = Append(heap, storeTree(trees', sha))
            /\ treesForPath' = Append(treesForPath, Len(heap) + 1)
            /\ rebuildParts' = pathParts
            /\ pc' = "createTreeForPath"
            /\ UNCHANGED result
         \/ /\ log' = Append(log, Request("createTree", "createTreeForSingleDir",
                                          [tree |-> list], FALSE, 500))
            /\ UNCHANGED <<trees, heap, treesForPath, rebuildParts>>
            /\ Throw("createTree failed")
  /\ UNCHANGED <<blobs, commits, refs, pulls, options, run, branchVars,
                 remainingPath, treeCache, existingTree, fileVars,
                 newRootTree, newCommit, runs>>

(***************************************************************************)
(* createTreeForPath, lines 678-707: one level of the rebuild.             *)
(***************************************************************************)
\* A variant that keeps the mode of a child that has one.
asTreeEntryKeepMode(child, sha) ==
  [f \in (DOMAIN child) \cup {"type", "mode", "sha"} |->
     IF f = "type" THEN "tree"
     ELSE IF f = "mode" /\ "mode" \notin DOMAIN child THEN "040000"
     ELSE IF f = "sha" THEN sha
     ELSE child[f]]

\* Lines 696-698: the child is made a tree entry for the tree sha.
asTreeEntry(child, sha) ==
  [f \in (DOMAIN child) \cup {"type", "mode", "sha"} |->
     IF f = "type" THEN "tree"
     ELSE IF f = "mode" THEN "040000"
     ELSE IF f = "sha" THEN sha
     ELSE child[f]]

\* A variant whose search test is inverted: it takes the first child that
\* is not named lastPath.
replaceOtherChild(list, lastPath, sha) ==
  LET found == findIndex({i \in DOMAIN list : list[i].path # lastPath})
      pushed == IF found = 0 THEN Append(list, [path |-> lastPath]) ELSE list
      at == IF found = 0 THEN Len(pushed) ELSE found
  IN  [pushed EXCEPT ![at] = asTreeEntry(@, sha)]

\* A variant that pushes the child without looking for it.
replaceChildPushed(list, lastPath, sha) ==
  Append(list, asTreeEntry([path |-> lastPath], sha))

\* Lines 689-698: the entry list of the parent after the child named
\* lastPath (found by path, pushed when absent) is pointed at sha.
replaceChild(list, lastPath, sha) ==
  LET found == findIndex({i \in DOMAIN list : list[i].path = lastPath})
      pushed == IF found = 0 THEN Append(list, [path |-> lastPath]) ELSE list
      at == IF found = 0 THEN Len(pushed) ELSE found
  IN  [pushed EXCEPT ![at] = asTreeEntry(@, sha)]

\* treesForPath.slice(-2)[0]
secondToLast(chain) == chain[IF Len(chain) >= 2 THEN Len(chain) - 1 ELSE 1]

\* A variant that drops the child only: treesForPath.slice(0, -1).
shortenedByOne(chain, newTree) ==
  SubSeq(chain, 1, Len(chain) - 1) \o <<newTree>>

\* treesForPath.slice(0, -2).concat([newTree])
shortened(chain, newTree) ==
  SubSeq(chain, 1, Len(chain) - 2) \o <<newTree>>

createTreeForPath ==
  /\ pc = "createTreeForPath"
  /\ LET lastTree == treesForPath[Len(treesForPath)]
         parentTree == secondToLast(treesForPath)
     IN  IF rebuildParts = <<>>
         THEN /\ newRootTree' = lastTree
              /\ pc' = "compareRootTree"
              /\ UNCHANGED <<trees, heap, treesForPath, rebuildParts, result,
                             log>>
         ELSE LET lastPath == rebuildParts[Len(rebuildParts)]
                  mutated == [heap[parentTree] EXCEPT
                                !.tree = replaceChild(@, lastPath,
                                                      heap[lastTree].sha)]
                  newTreeChildren == treeChildrenForCreateRequest(mutated)
                  content == storeEntries(newTreeChildren)
                  sha == storeHash(trees, content)
                  arg == [tree |-> newTreeChildren]
              IN  \/ /\ log' = Append(log, Request("createTree",
                                          "createTreeForPath", arg, TRUE, sha))
                     /\ trees' = storePut(trees, content)
                     /\ heap' = Append([heap EXCEPT ![parentTree] = mutated],
                                       storeTree(trees', sha))
                     /\ treesForPath' = shortened(treesForPath, Len(heap) + 1)
                     /\ rebuildParts' =
                          SubSeq(rebuildParts, 1, Len(rebuildParts) - 1)
                     /\ UNCHANGED <<pc, result, newRootTree>>
                  \/ /\ log' = Append(log, Request("createTree",
                                          "createTreeForPath", arg, FALSE, 500))
                     /\ heap' = [heap EXCEPT ![parentTree] = mutated]
                     /\ UNCHANGED <<trees, treesForPath, rebuildParts,
                                    newRootTree>>
                     /\ Throw("createTree failed")
  /\ UNCHANGED <<blobs, commits, refs, pulls, options, run, branchVars,
                 remainingPath, treeCache, existingTree, fileVars, newCommit,
                 runs>>

(***************************************************************************)
(* Commit publication, lines 447-458, 729-744.                             *)
(***************************************************************************)
\* A variant that compares the tree hash with the hash of the commit.
noChangesOfCommit(rootSha, latest) == rootSha = latest.sha

\* newRootTree.sha === commit.tree.sha
noChanges(rootSha, latest) == rootSha = latest.tree.sha

compareRootTree ==
  /\ pc = "compareRootTree"
  /\ IF noChanges(heap[newRootTree].sha, commit)
     THEN pc' = "done" /\ result' = "ok"
     ELSE pc' = "createCommit" /\ UNCHANGED result
  /\ UNCHANGED <<storeVars, options, run, branchVars, pathVars, fileVars,
                 rebuildVars, log, runs>>

\* A variant that takes over the parents of the latest commit.
commitRequestOfParents(message, rootSha, latest) ==
  [message |-> message, tree |-> rootSha, parents |-> latest.parents]

\* A variant that takes the parent from where the branch points now.
commitRequestOnHead(message, rootSha, latest) ==
  [message |-> message, tree |-> rootSha,
   parents |-> <<refs[options.branch]>>]

\* The createCommit request of commitChanges, lines 733-737.
commitRequest(message, rootSha, latest) ==
  [message |-> message, tree |-> rootSha, parents |-> <<latest.sha>>]

createCommit ==
  /\ pc = "createCommit"
  /\ LET arg == commitRequest(options.message, heap[newRootTree].sha, commit)
         sha == Len(commits) + 1
     IN  \/ /\ log' = Append(log, Request("createCommit", "commitChanges",
                                          arg, TRUE, sha))
            /\ commits' = Append(commits, arg)
            /\ newCommit' = storeCommit(commits', sha)
            /\ pc' = "updateReference"
            /\ UNCHANGED result
         \/ /\ log' = Append(log, Request("createCommit", "commitChanges",
                                          arg, FALSE, 500))
            /\ UNCHANGED <<commits, newCommit>>
            /\ Throw("createCommit failed")
  /\ UNCHANGED <<blobs, trees, refs, pulls, options, run, branchVars,
                 pathVars, fileVars, rebuildParts, newRootTree, runs>>

\* A variant that sends the hash of the commit's tree.
referenceUpdateToTree(name, created) ==
  [ref |-> headsRef(name), sha |-> created.tree.sha]

\* The updateReference request of commitChanges, lines 739-742.
referenceUpdate(name, created) ==
  [ref |-> headsRef(name), sha |-> created.sha]

\* A variant in which a failed updateReference has moved the reference.
updateReferenceApplied ==
  /\ pc = "updateReference"
  /\ LET arg == [ref |-> headsRef(options.branch), sha |-> newCommit.sha]
     IN  /\ log' = Append(log, Request("updateReference", "commitChanges",
                                       arg, FALSE, 500))
         /\ refs' = [refs EXCEPT ![storeBranchOf(arg.ref)] = arg.sha]
         /\ Throw("updateReference failed")
  /\ UNCHANGED <<blobs, trees, commits, pulls, options, run, branchVars,
                 pathVars, fileVars, rebuildVars, runs>>

updateReference ==
  /\ pc = "updateReference"
  /\ LET arg == referenceUpdate(options.branch, newCommit)
     IN  \/ /\ log' = Append(log, Request("updateReference", "commitChanges",
                                          arg, TRUE, arg.sha))
            /\ refs' = [refs EXCEPT ![storeBranchOf(arg.ref)] = arg.sha]
            /\ IF options.createPullRequest
               THEN pc' = "createPullRequest" /\ UNCHANGED result
               ELSE pc' = "done" /\ result' = "ok"
         \/ /\ log' = Append(log, Request("updateReference", "commitChanges",
                                          arg, FALSE, 500))
            /\ UNCHANGED refs
            /\ Throw("updateReference failed")
  /\ UNCHANGED <<blobs, trees, commits, pulls, options, run, branchVars,
                 pathVars, fileVars, rebuildVars, runs>>

(***************************************************************************)
(* createPullRequest, lines 851-876.                                       *)
(***************************************************************************)
\* A variant that looks for the message in err.errors.
alreadyExistsInErrors(err) ==
  "errors" \in DOMAIN err /\ err.errors[1].message = "already exists"

\* Lines 863-864: the error is the one that is let pass.
alreadyExists(err) == err.message = "already exists"

createPullRequest ==
  /\ pc = "createPullRequest"
  /\ LET arg == [base |-> options.baseBranch, head |-> options.branch,
                 title |-> options.message]
         pull == <<arg.base, arg.head>>
     IN  \/ /\ pull \notin pulls
            /\ log' = Append(log, Request("pullRequests.create",
                                          "createPullRequest", arg, TRUE, 0))
            /\ pulls' = pulls \cup {pull}
            /\ pc' = "done" /\ result' = "ok"
         \* A failure of the store; the pull request may also have been
         \* opened by someone else since.
         \/ \E err \in {[message |-> "already exists"],
                        [message |-> "Server Error"]} :
              /\ log' = Append(log, Request("pullRequests.create",
                                            "createPullRequest", arg, FALSE,
                                            err.message))
              /\ UNCHANGED pulls
              /\ IF alreadyExists(err)
                 THEN pc' = "done" /\ result' = "ok"
                 ELSE Throw(err.message)
  /\ UNCHANGED <<blobs, trees, commits, refs, options, run, branchVars,
                 pathVars, fileVars, rebuildVars, runs>>

(***************************************************************************)
(* The caller runs the sync again, with the same options, once it has      *)
(* completed.                                                              *)
(***************************************************************************)
Finished ==
  [result |-> result, log |-> log,
   oldRoot |-> IF commit = None THEN 0 ELSE commit.tree.sha,
   newRoot |-> IF newRootTree = 0 THEN 0 ELSE heap[newRootTree].sha]

Resync ==
  /\ pc = "done"
  /\ result = "ok"
  /\ run < MaxRuns
  /\ runs' = Append(runs, Finished)
  /\ run' = run + 1
  /\ pc' = "validateOptions"
  /\ result' = "pending"
  /\ branch' = None
  /\ baseBranch' = None
  /\ commit' = None
  /\ heap' = <<>>
  /\ treesForPath' = <<>>
  /\ remainingPath' = <<>>
  /\ treeCache' = NoCache
  /\ existingTree' = 0
  /\ filenames' = <<>>
  /\ fileState' = <<>>
  /\ children' = <<>>
  /\ pathExists' = {}
  /\ rebuildParts' = <<>>
  /\ newRootTree' = 0
  /\ newCommit' = None
  /\ log' = <<>>
  /\ UNCHANGED <<storeVars, options>>

Next ==
  \/ validateOptions
  \/ getBranchOrNull
  \/ createBranch
  \/ createReference
  \/ getLatestCommit
  \/ getRootTree
  \/ existingTreesForPath
  \/ createNewTreeForPath
  \/ readdir
  \/ \E i \in DOMAIN fileState : stat(i)
  \/ \E i \in DOMAIN fileState : readFile(i)
  \/ \E i \in DOMAIN fileState : createBlob(i)
  \/ createTreeForSingleDir
  \/ createTreeForPath
  \/ compareRootTree
  \/ createCommit
  \/ updateReference
  \/ createPullRequest
  \/ Resync

Spec == Init /\ [][Next]_vars

(***************************************************************************)
(* A second writer of the target branch, such as the commitChanges of      *)
(* another sync that runs interleaved with this one: between the           *)
(* resolution of the branch and the reference update of this sync it       *)
(* publishes a commit on the branch that adds a file to the root.          *)
(***************************************************************************)
OtherEntry == Entry("other.txt", "100644", "blob", 1)

otherWriter ==
  /\ pc \notin {"validateOptions", "getBranchOrNull", "createBranch",
                "createReference", "done"}
  /\ \A i \in DOMAIN log : log[i].op # "updateReference"
  /\ \A h \in DOMAIN commits : commits[h].message # "other"
  /\ LET head == refs[options.branch]
         content == trees[commits[head].tree] \cup {OtherEntry}
     IN  /\ trees' = storePut(trees, content)
         /\ commits' = Append(commits, [tree |-> storeHash(trees, content),
                                        parents |-> <<head>>,
                                        message |-> "other"])
         /\ refs' = [refs EXCEPT ![options.branch] = Len(commits) + 1]
  /\ UNCHANGED <<blobs, pulls, options, run, pc, result, branchVars, pathVars,
                 fileVars, rebuildVars, log, runs>>

NextWriter ==
  \/ validateOptions
  \/ getBranchOrNull
  \/ createBranch
  \/ createReference
  \/ getLatestCommit
  \/ getRootTree
  \/ existingTreesForPath
  \/ createNewTreeForPath
  \/ readdir
  \/ \E i \in DOMAIN fileState : stat(i)
  \/ \E i \in DOMAIN fileState : readFile(i)
  \/ \E i \in DOMAIN fileState : createBlob(i)
  \/ createTreeForSingleDir
  \/ createTreeForPath
  \/ compareRootTree
  \/ createCommit
  \/ updateReference
  \/ createPullRequest
  \/ otherWriter

SpecWriter == Init /\ [][NextWriter]_vars

(***************************************************************************)
(* What the claims are stated with: the requests of the log and the trees  *)
(* of the store, read from the store's tables alone.                       *)
(***************************************************************************)
Issued(op) == {i \in DOMAIN log : log[i].op = op}
Succeeded(op) == {i \in Issued(op) : log[i].ok}

\* The createTree request of createTreeForSingleDir, and those of the
\* rebuild.
LeafRequests == {i \in Issued("createTree") : log[i].by = "createTreeForSingleDir"}
AncestorRequests == {i \in Issued("createTree") : log[i].by = "createTreeForPath"}

\* The tree entries of tree sha that are named name.
TreeChildren(sha, name) ==
  {e \in trees[sha] : e.type = "tree" /\ e.path = name}

\* The hash of the tree found by walking parts down from tree sha, 0 if a
\* part names no tree.
RECURSIVE TreeAt(_, _)
TreeAt(sha, parts) ==
  IF parts = <<>> THEN sha
  ELSE IF TreeChildren(sha, parts[1]) = {} THEN 0
  ELSE TreeAt((CHOOSE e \in TreeChildren(sha, parts[1]) : TRUE).sha, Tail(parts))

Prefix(parts, k) == SubSeq(parts, 1, k)

\* The root tree of the latest commit, and the tree at repoPath in it.
OldRoot == commit.tree.sha
ExistingAtRepoPath == TreeAt(OldRoot, pathParts)

\* The hash of the rebuilt root tree, once the rebuild has returned it.
Rebuilt == newRootTree # 0
NewRoot == heap[newRootTree].sha

LocalFiles == {f \in Range(Listing(options.localPath)) : ~f.isDirectory}
LocalFileNames == {f.name : f \in LocalFiles}

\* The elements of a submitted entry list that are entries, and their paths.
EntriesOf(list) == {list[j] : j \in {k \in DOMAIN list : list[k] # Null}}
PathsOf(list) == {e.path : e \in EntriesOf(list)}

\* The hash the store has for a blob content.
BlobHash(content) == CHOOSE h \in DOMAIN blobs : blobs[h] = content

(***************************************************************************)
(* C1. Idempotence: a sync that follows a successful sync of the same      *)
(* directory to the same path and branch rebuilds a root tree whose hash   *)
(* is the one the earlier sync computed (and the branch carries), and      *)
(* issues no createCommit and no updateReference.                          *)
(***************************************************************************)
C1_Idempotence ==
  run > 1 =>
    /\ Issued("createCommit") = {}
    /\ Issued("updateReference") = {}
    /\ Rebuilt =>
         /\ NewRoot = runs[run - 1].newRoot
         /\ NewRoot = commits[refs[options.branch]].tree

\* A second sync has completed after a first one that published a commit.
C1_Witness ==
  /\ run = 2 /\ pc = "done" /\ result = "ok" /\ Rebuilt
  /\ \E i \in DOMAIN runs[1].log :
       runs[1].log[i].op = "updateReference" /\ runs[1].log[i].ok
  /\ runs[1].newRoot # runs[1].oldRoot

(***************************************************************************)
(* C2. createCommit is issued exactly when the hash of the rebuilt root    *)
(* differs from the hash of the root tree of the latest commit, and        *)
(* updateReference exactly when that createCommit has succeeded; with      *)
(* equal hashes neither is issued and the sync completes successfully.     *)
(***************************************************************************)
PastComparison == Rebuilt /\ pc # "compareRootTree"

C2_CommitIffRootDiffers ==
  /\ Issued("createCommit") # {} => PastComparison /\ NewRoot # OldRoot
  /\ Issued("updateReference") # {} => Succeeded("createCommit") # {}
  /\ PastComparison /\ NewRoot # OldRoot =>
       /\ pc # "createCommit" => Issued("createCommit") # {}
       /\ pc \notin {"createCommit", "updateReference"}
            /\ Succeeded("createCommit") # {} => Issued("updateReference") # {}
       /\ result = "ok" => Succeeded("updateReference") # {}
  /\ PastComparison /\ NewRoot = OldRoot =>
       /\ pc = "done" /\ result = "ok"
       /\ Issued("createCommit") = {} /\ Issued("updateReference") = {}

\* A first sync whose local directory equals the tree at repoPath has
\* completed without a commit.
C2_Witness ==
  /\ run = 1 /\ pc = "done" /\ result = "ok"
  /\ Rebuilt /\ NewRoot = OldRoot /\ pathParts # <<>>
  /\ \E i \in LeafRequests : log[i].ok

(***************************************************************************)
(* C3. When the target path exists, the entry list of the new leaf tree    *)
(* has, with preserveRepoFiles, the paths of the local files and of the    *)
(* existing entries that are not local files, each of the latter as it is  *)
(* in the existing tree; without preserveRepoFiles it has the paths of the *)
(* local files only.                                                       *)
(***************************************************************************)
Preserved == {e \in trees[ExistingAtRepoPath] : e.path \notin LocalFileNames}

Named(list, name) ==
  {j \in DOMAIN list : list[j] # Null /\ list[j].path = name}

C4_CollisionPrecedence ==
  \A i \in LeafRequests :
    ExistingAtRepoPath # 0 =>
      \A f \in LocalFiles :
        (\E e \in trees[ExistingAtRepoPath] : e.path = f.name) =>
          /\ Cardinality(Named(log[i].arg.tree, f.name)) = 1
          /\ \A j \in Named(log[i].arg.tree, f.name) :
               log[i].arg.tree[j] =
                 Entry(f.name, "100644", "blob", BlobHash(f.content))

\* A merging sync submitted a leaf tree for a local file that is named as
\* an existing entry of another mode and content.
C4_Witness ==
  \E i \in LeafRequests :
    /\ ExistingAtRepoPath # 0 /\ options.preserveRepoFiles /\ log[i].ok
    /\ \E f \in LocalFiles : \E e \in trees[ExistingAtRepoPath] :
         e.path = f.name /\ e.mode = "100755" /\ e.sha # BlobHash(f.content)

(***************************************************************************)
(* C5. Structural sharing: every tree the rebuild submits for an ancestor  *)
(* of repoPath has, apart from the entry of the path part replaced at that *)
(* level, exactly the entries of the ancestor in the store; so every entry *)
(* off the path is in the new root as it is in the old root.               *)
(***************************************************************************)
\* The k-th request of the rebuild is for the ancestor Depth(k) parts down.
Depth(k) == Len(pathParts) - k

AncestorOrder == SelectSeq([i \in DOMAIN log |-> i], LAMBDA i : i \in AncestorRequests)

OffPath(entries, part) == {e \in entries : e.path # part}

C5_StructuralSharing ==
  /\ \A k \in DOMAIN AncestorOrder :
       LET req == log[AncestorOrder[k]]
           ancestor == TreeAt(OldRoot, Prefix(pathParts, Depth(k)))
           part == pathParts[Depth(k) + 1]
       IN  /\ ancestor # 0
           /\ OffPath(Range(req.arg.tree), part) = OffPath(trees[ancestor], part)
  /\ Rebuilt =>
       \A d \in 0..(Len(pathParts) - 1) :
         OffPath(trees[TreeAt(OldRoot, Prefix(pathParts, d))], pathParts[d + 1])
           \subseteq trees[TreeAt(NewRoot, Prefix(pathParts, d))]

\* A sync to a/b/sub has rebuilt the root: a has the sibling subtree d.
C5_Witness ==
  /\ Rebuilt /\ Len(pathParts) = 3 /\ NewRoot # OldRoot
  /\ \E e \in trees[TreeAt(NewRoot, Prefix(pathParts, 1))] :
       e.path = "d" /\ e.type = "tree"

(***************************************************************************)
(* C6. The reference invariant: a branch reference always points to a      *)
(* commit of the store, whose tree is in the store; updateReference is     *)
(* only issued with the hash an earlier, successful createCommit of the    *)
(* sync returned, and createReference with the hash of a commit of the     *)
(* store.                                                                  *)
(***************************************************************************)
C6_ReferenceInvariant ==
  /\ \A b \in Branches :
       refs[b] # 0 =>
         refs[b] \in DOMAIN commits /\ commits[refs[b]].tree \in DOMAIN trees
  /\ \A i \in Issued("updateReference") :
       \E j \in Succeeded("createCommit") :
         j < i /\ log[j].res = log[i].arg.sha
  /\ \A i \in Issued("createReference") : log[i].arg.sha \in DOMAIN commits

\* A sync that created its branch has moved it to a commit of its own.
C6_Witness ==
  /\ Succeeded("createReference") # {}
  /\ Succeeded("updateReference") # {}
  /\ refs[options.branch] = Len(commits)
  /\ Len(commits) > Len(InitCommits)

(***************************************************************************)
(* C7. Lenient path resolution: the chain existingTreesForPath returns     *)
(* starts at the root, each of its trees is the tree entry named by the    *)
(* next path part in the tree before it, and it ends where the next part   *)
(* names no tree entry (a missing name or a blob); it has between 1 and    *)
(* len(parts) + 1 trees, and no error is raised for the part not found.    *)
(***************************************************************************)
Chain == [i \in DOMAIN treesForPath |-> heap[treesForPath[i]].sha]

C7_LenientResolution ==
  /\ pc = "createNewTreeForPath" =>
       /\ result = "pending"
       /\ Len(Chain) >= 1 /\ Len(Chain) <= Len(pathParts) + 1
       /\ Chain[1] = OldRoot
       /\ \A i \in 1..(Len(Chain) - 1) :
            \E e \in TreeChildren(Chain[i], pathParts[i]) : e.sha = Chain[i + 1]
       /\ Len(Chain) <= Len(pathParts) =>
            TreeChildren(Chain[Len(Chain)], pathParts[Len(Chain)]) = {}
       /\ \A i \in DOMAIN Chain :
            EntriesOf(treeChildrenForCreateRequest(heap[treesForPath[i]]))
              = trees[Chain[i]]
  /\ pc = "done" /\ result = "getTree failed" => ~log[Len(log)].ok

\* The walk has ended at a/x.txt, which is a blob of tree a.
C7_Witness ==
  /\ pc = "createNewTreeForPath"
  /\ Len(Chain) = 2 /\ Len(pathParts) = 2
  /\ \E e \in trees[Chain[2]] : e.path = pathParts[2] /\ e.type = "blob"

(***************************************************************************)
(* C8. A missing parent directory is fatal: when the chain resolved is     *)
(* shorter than the path parts, the sync fails, and no createBlob,         *)
(* createTree, createCommit or updateReference request is issued.          *)
(***************************************************************************)
MissingParent ==
  /\ commit # None
  /\ Len(pathParts) >= 2
  /\ TreeAt(OldRoot, Prefix(pathParts, Len(pathParts) - 1)) = 0

C8_MissingParentFatal ==
  MissingParent =>
    /\ \A i \in DOMAIN log :
         log[i].op \notin {"readdir", "createBlob", "createTree",
                           "createCommit", "updateReference"}
    /\ fileState = <<>>
    /\ pc \in {"getRootTree", "existingTreesForPath", "createNewTreeForPath",
               "done"}
    /\ pc = "done" => result # "ok"
    /\ pc = "done" /\ (\A i \in DOMAIN log : log[i].ok \/ log[i].res = 404) =>
         result = "Could not find existing parent dir for repo path"

\* A sync to n/m, on a branch it has just created, has failed: the root
\* has no tree n.
C8_Witness ==
  /\ pc = "done"
  /\ result = "Could not find existing parent dir for repo path"
  /\ Len(treesForPath) = 1 /\ Len(pathParts) = 2
  /\ Succeeded("createReference") # {}

(***************************************************************************)
(* C9. Branch bootstrap: createReference is issued for the target branch,  *)
(* found absent, when createBranch is set and the reference of baseBranch  *)
(* was read; it carries the commit hash baseBranch points to, it precedes  *)
(* every createBlob, createTree and createCommit, and the latest commit of *)
(* the rest of the sync is that commit.                                    *)
(***************************************************************************)
FoundAbsent ==
  \E i \in Issued("getReference") :
    log[i].by = "getBranchOrNull" /\ ~log[i].ok /\ log[i].res = 404

BaseRead ==
  \E i \in Succeeded("getReference") : log[i].by = "createBranch"

C9_BranchBootstrap ==
  /\ \A i \in Issued("createReference") :
       /\ FoundAbsent /\ options.createBranch
       /\ log[i].arg.ref = <<"refs", "heads", options.branch>>
       /\ log[i].arg.sha = refs[options.baseBranch]
       /\ \A j \in 1..(i - 1) :
            log[j].op \notin {"createBlob", "createTree", "createCommit",
                              "updateReference"}
       /\ \A j \in Issued("getCommit") :
            j > i /\ log[j].arg.sha = log[i].arg.sha
       /\ commit # None => commit.sha = log[i].arg.sha
       /\ log[i].ok /\ Issued("updateReference") = {} =>
            refs[options.branch] = refs[options.baseBranch]
  /\ FoundAbsent /\ options.createBranch /\ BaseRead /\ pc # "createReference"
       => Issued("createReference") # {}

\* A branch forked from dev: the sync goes on from the head of dev.
C9_Witness ==
  /\ Succeeded("createReference") # {}
  /\ options.baseBranch = "dev"
  /\ commit # None /\ commit.sha = refs["dev"] /\ refs["dev"] # refs["master"]
  /\ Succeeded("createCommit") # {}

(***************************************************************************)
(* C10. When the target branch is absent and createBranch is not set, the  *)
(* sync fails, it has issued no request but the lookup of the branch, and  *)
(* the store is as it was.                                                 *)
(***************************************************************************)
C10_AbsentBranchNoWrite ==
  Issued("getReference") # {} /\ refs[options.branch] = 0
    /\ ~options.createBranch =>
      /\ pc = "done"
      /\ result \in {"Branch does not exist", "getReference failed"}
      /\ log[1].res = 404 => result = "Branch does not exist"
      /\ Len(log) = 1 /\ log[1].op = "getReference"
      /\ fileState = <<>>
      /\ blobs = InitBlobs /\ trees = InitTrees /\ commits = InitCommits
      /\ pulls = {} /\ refs \in InitRefs

\* The sync has failed on the absent branch test.
C10_Witness ==
  /\ pc = "done" /\ result = "Branch does not exist"
  /\ options.branch = "test" /\ refs["test"] = 0
  /\ ~options.createBranch

(***************************************************************************)
(* C11. Pre-flight validation: options that lack user, repo, localPath,    *)
(* repoPath or message, or whose branch equals baseBranch (master for      *)
(* each when left out) with createBranch or createPullRequest set, fail    *)
(* the sync before any request; all other options pass validation.         *)
(***************************************************************************)
ValidationErrors ==
  { "Must pass owner of repo in user", "Must pass repo name in repo",
    "Must pass local path to sync from in localPath",
    "Must pass path within repo to sync to in repoPath",
    "Must pass commit message in message",
    "Cannot create branch if it is the same as baseBranch",
    "Cannot create pull request when branch and baseBranch are the same" }

BranchOrMaster == IF options.branch = Undefined THEN "master" ELSE options.branch
BaseOrMaster ==
  IF options.baseBranch = Undefined THEN "master" ELSE options.baseBranch

Invalid ==
  \/ Undefined \in {options.user, options.repo, options.localPath,
                    options.message}
  \/ options.repoPath = NoPath
  \/ /\ BranchOrMaster = BaseOrMaster
     /\ options.createBranch \/ options.createPullRequest

C11_PreflightValidation ==
  pc # "validateOptions" =>
    IF Invalid
    THEN /\ pc = "done" /\ result \in ValidationErrors
         /\ log = <<>> /\ fileState = <<>>
         /\ blobs = InitBlobs /\ trees = InitTrees /\ commits = InitCommits
         /\ pulls = {} /\ refs \in InitRefs
    ELSE /\ result \notin ValidationErrors
         /\ log # <<>> \/ pc = "getBranchOrNull"

\* A sync without a commit message has failed validation.
C11_Witness ==
  /\ pc = "done" /\ options.message = Undefined
  /\ result = "Must pass commit message in message"

(***************************************************************************)
(* C12. With createPullRequest set, every sync that has completed          *)
(* successfully has issued a pull request creation request from branch     *)
(* into baseBranch.                                                        *)
(***************************************************************************)
PullRequests == Issued("pullRequests.create")

C12_PullRequestOnSuccess ==
  options.createPullRequest /\ pc = "done" /\ result = "ok" =>
    \E i \in PullRequests :
      log[i].arg.head = options.branch /\ log[i].arg.base = options.baseBranch

(***************************************************************************)
(* C13. A pull request creation that fails with an already exists error    *)
(* leaves the sync successful; one that fails with any other error fails   *)
(* the sync with that error, and the branch reference stays at the         *)
(* commit the sync has just published.                                     *)
(***************************************************************************)
C13_PullRequestOutcome ==
  \A i \in PullRequests :
    /\ i = Len(log) /\ pc = "done"
    /\ Succeeded("updateReference") # {}
    /\ \A j \in Succeeded("updateReference") :
         /\ j < i
         /\ refs[options.branch] = log[j].arg.sha
         /\ log[j].arg.sha \in DOMAIN commits
    /\ IF log[i].ok \/ log[i].res = "already exists"
       THEN result = "ok"
       ELSE result = log[i].res

\* A pull request creation failed with already exists and the sync succeeded.
C13_Witness ==
  /\ PullRequests # {}
  /\ ~log[Len(log)].ok
  /\ log[Len(log)].res = "already exists"
  /\ result = "ok"

(***************************************************************************)
(* C14. Fail-fast: once a request or a local read has failed, other than   *)
(* a 404 of the lookup of the target branch and an already exists of the   *)
(* pull request creation, no request of a later stage is issued, no        *)
(* request is issued again, and the sync ends with that first error.       *)
(***************************************************************************)
\* The stage of the pipeline a request belongs to.
Stage(req) ==
  CASE req.op \in {"getReference", "createReference"} -> 1
    [] req.op \in {"getCommit", "getTree"} -> 2
    [] req.by = "createTreeForSingleDir" -> 3
    [] req.op = "createTree" -> 4
    [] req.op \in {"createCommit", "updateReference"} -> 5
    [] OTHER -> 6

\* The error a failed request is reported with.
FailureOf(req) ==
  IF req.op = "pullRequests.create" THEN req.res
  ELSE [getReference |-> "getReference failed",
        createReference |-> "createReference failed",
        getCommit |-> "getCommit failed", getTree |-> "getTree failed",
        readdir |-> "readdir failed", stat |-> "stat failed",
        readFile |-> "readFile failed", createBlob |-> "createBlob failed",
        createTree |-> "createTree failed",
        createCommit |-> "createCommit failed",
        updateReference |-> "updateReference failed"][req.op]

Recoverable(req) ==
  \/ req.by = "getBranchOrNull" /\ req.res = 404
  \/ req.op = "pullRequests.create" /\ req.res = "already exists"

Fatal == {i \in DOMAIN log : ~log[i].ok /\ ~Recoverable(log[i])}

C14_FailFast ==
  Fatal # {} =>
    LET first == CHOOSE i \in Fatal : \A j \in Fatal : i <= j
    IN  /\ pc = "done"
        /\ result = FailureOf(log[first])
        /\ \A j \in DOMAIN log :
             j > first => Stage(log[j]) <= Stage(log[first])
        /\ \A i \in Fatal : \A j \in DOMAIN log :
             j > i => ~(log[j].op = log[i].op /\ log[j].arg = log[i].arg)

\* The read of one file has failed and a request for another file was
\* issued after it; the sync has ended with the error of the first.
C14_Witness ==
  /\ Fatal # {}
  /\ \E i \in Fatal : i < Len(log) /\ log[i].op = "stat"
                      /\ result = "stat failed"
  /\ log[Len(log)].op = "createBlob"

(***************************************************************************)
(* C15. Stage ordering: in the requests of one sync those of branch        *)
(* resolution come before those of path resolution, those before the       *)
(* createBlob requests and the leaf createTree, those before the ancestor  *)
(* createTree requests, those before createCommit and updateReference,     *)
(* and those before the pull request creation; a stage is entered only     *)
(* after a request of each earlier stage has succeeded.                    *)
(***************************************************************************)
C15_StageOrdering ==
  /\ \A i, j \in DOMAIN log : i < j => Stage(log[i]) <= Stage(log[j])
  /\ \A j \in DOMAIN log : \A s \in 1..(Stage(log[j]) - 1) :
       \/ s = 4 /\ pathParts = <<>>
       \/ \E i \in 1..(j - 1) : Stage(log[i]) = s /\ log[i].ok
  /\ \A i \in Issued("createCommit") : \A j \in Issued("updateReference") :
       i < j

\* A sync that went through all six stages.
C15_Witness ==
  /\ Succeeded("pullRequests.create") # {}
  /\ AncestorRequests # {}
  /\ Cardinality(Issued("createBlob")) = 2

(***************************************************************************)
(* C16. Nested local directories are skipped: the entry list of the leaf   *)
(* createTree request holds one blob entry for each local file that is     *)
(* not a directory and nothing at all for a local subdirectory, no null    *)
(* or placeholder element in particular.                                   *)
(***************************************************************************)
\* The entries the leaf request takes over from the tree at repoPath.
TakenOver ==
  IF options.preserveRepoFiles /\ ExistingAtRepoPath # 0
  THEN {e \in trees[ExistingAtRepoPath] : e.path \notin LocalFileNames}
  ELSE {}

C16_NestedDirectoriesSkipped ==
  \A i \in LeafRequests :
    LET list == log[i].arg.tree
    IN  /\ \A j \in DOMAIN list : list[j] # Null /\ list[j] # None
        /\ \A f \in LocalFiles :
             \E j \in DOMAIN list :
               list[j] = Entry(f.name, "100644", "blob", BlobHash(f.content))
        /\ Len(list) = Cardinality(LocalFiles) + Cardinality(TakenOver)

(***************************************************************************)
(* C17. Each step of the rebuild submits a parent tree with exactly one    *)
(* entry named by the current path segment; that entry has type tree,      *)
(* mode 040000 and the hash of the child tree created just before,         *)
(* whether the parent had no entry of that name, a tree entry or a blob    *)
(* entry.                                                                  *)
(***************************************************************************)
\* The createTree request that precedes the k-th request of the rebuild.
ChildRequest(k) ==
  IF k = 1 THEN CHOOSE i \in LeafRequests : TRUE ELSE AncestorOrder[k - 1]

\* The path segment the k-th request of the rebuild is about, and the
\* entries of that name in the tree the parent was read from.
Segment(k) == pathParts[Depth(k) + 1]
FormerEntries(k) ==
  {e \in trees[TreeAt(OldRoot, Prefix(pathParts, Depth(k)))] :
     e.path = Segment(k)}

C17_RebuildEntry ==
  \A k \in DOMAIN AncestorOrder :
    LET list == log[AncestorOrder[k]].arg.tree
    IN  /\ Cardinality(Named(list, Segment(k))) = 1
        /\ \A j \in Named(list, Segment(k)) :
             list[j] = Entry(Segment(k), "040000", "tree",
                             log[ChildRequest(k)].res)
        /\ log[ChildRequest(k)].ok
        /\ ChildRequest(k) < AncestorOrder[k]

\* The three cases of the parent: no entry, a tree entry and a blob entry
\* of the name.
C17_WitnessAbsent ==
  \E k \in DOMAIN AncestorOrder : FormerEntries(k) = {}
C17_WitnessTree ==
  \E k \in DOMAIN AncestorOrder : \E e \in FormerEntries(k) : e.type = "tree"
C17_Witness ==
  \E k \in DOMAIN AncestorOrder :
    /\ log[AncestorOrder[k]].ok
    /\ \E e \in FormerEntries(k) : e.type = "blob" /\ e.mode = "100644"

(***************************************************************************)
(* C18. A sync that reaches the comparison of the root trees has issued    *)
(* exactly Len(pathParts) + 1 createTree requests: the leaf, then one for  *)
(* each ancestor from the deepest up to the root, each ancestor request    *)
(* carrying the hash the request before it returned; no tree off the path  *)
(* is created.                                                             *)
(***************************************************************************)
\* The k-th request of the rebuild is the tree at depth Depth(k) of the
\* path, pointed at the tree the request before it returned.
OnPath(k) ==
  LET list == log[AncestorOrder[k]].arg.tree
      ancestor == TreeAt(OldRoot, Prefix(pathParts, Depth(k)))
  IN  /\ ancestor # 0
      /\ OffPath(Range(list), Segment(k)) = OffPath(trees[ancestor], Segment(k))
      /\ \E j \in DOMAIN list :
           list[j].path = Segment(k) /\ list[j].sha = log[ChildRequest(k)].res

C18_CreateTreeCount ==
  /\ Cardinality(Issued("createTree")) <= Len(pathParts) + 1
  /\ Cardinality(LeafRequests) <= 1
  /\ \A i \in LeafRequests : \A j \in AncestorRequests : i < j
  /\ \A k \in DOMAIN AncestorOrder : OnPath(k)
  /\ Rebuilt =>
       /\ Cardinality(Issued("createTree")) = Len(pathParts) + 1
       /\ Cardinality(LeafRequests) = 1
       /\ Len(AncestorOrder) = Len(pathParts)
       /\ \A i \in Issued("createTree") : log[i].ok
       /\ \E i \in Issued("createTree") :
            /\ \A j \in Issued("createTree") : j <= i
            /\ NewRoot = log[i].res

\* A rebuild through two ancestors, three createTree requests in all.
C18_Witness ==
  /\ Rebuilt
  /\ Len(pathParts) = 2
  /\ Cardinality(Issued("createTree")) = 3
  /\ NewRoot # OldRoot

(***************************************************************************)
(* C19. The chain handed to the rebuild holds no stale leaf: at the first  *)
(* call of createTreeForPath it has exactly Len(pathParts) + 1 trees, its  *)
(* last element is the tree createTreeForSingleDir has just created, and   *)
(* the tree that existed at repoPath has been taken out of it.             *)
(***************************************************************************)
FirstCall == pc = "createTreeForPath" /\ AncestorRequests = {}

C19_NoStaleLeaf ==
  FirstCall =>
    LET n == Len(pathParts)
    IN  /\ Len(treesForPath) = n + 1
        /\ \A i \in LeafRequests :
             log[i].ok /\ heap[treesForPath[n + 1]].sha = log[i].res
        /\ LeafRequests # {}
        /\ treesForPath[n + 1] = Len(heap)
        /\ \A i \in 1..n :
             Chain[i] = TreeAt(OldRoot, Prefix(pathParts, i - 1))
        /\ ExistingAtRepoPath # 0 =>
             /\ existingTree # 0
             /\ heap[existingTree].sha = ExistingAtRepoPath
             /\ existingTree \notin Range(treesForPath)
        /\ ExistingAtRepoPath = 0 => existingTree = 0

\* The first call for a path of three segments that existed in full, with
\* a new leaf that differs from the tree that was there.
C19_Witness ==
  /\ FirstCall
  /\ Len(pathParts) = 3
  /\ existingTree # 0
  /\ heap[treesForPath[Len(treesForPath)]].sha # ExistingAtRepoPath

(***************************************************************************)
(* C20. The createCommit request carries the configured message, the hash  *)
(* of the rebuilt root tree as its tree and exactly one parent, the commit *)
(* the branch reference pointed to when the branch was resolved; the       *)
(* updateReference request that follows targets heads/<branch> with the    *)
(* hash createCommit returned.                                             *)
(***************************************************************************)
\* The commit hashes branch resolution has answered with for the branch.
ResolvedAt ==
  {log[i].res : i \in {j \in DOMAIN log :
     /\ log[j].ok
     /\ \/ log[j].op = "getReference" /\ log[j].by = "getBranchOrNull"
        \/ log[j].op = "createReference"}}

C20_CommitShape ==
  /\ \A i \in Issued("createCommit") :
       /\ Rebuilt
       /\ log[i].arg.message = options.message
       /\ log[i].arg.tree = NewRoot
       /\ Len(log[i].arg.parents) = 1
       /\ ResolvedAt = {log[i].arg.parents[1]}
       /\ log[i].ok => commits[log[i].res] = log[i].arg
  /\ Cardinality(Issued("createCommit")) <= 1
  /\ \A j \in Issued("updateReference") :
       /\ j - 1 \in Succeeded("createCommit")
       /\ log[j].arg = [ref |-> <<"heads", options.branch>>,
                        sha |-> log[j - 1].res]
       /\ log[j].ok /\ j = Len(log) => refs[options.branch] = log[j].arg.sha

\* A commit published on a branch the sync has created from baseBranch.
C20_Witness ==
  /\ Succeeded("updateReference") # {}
  /\ Succeeded("createReference") # {}
  /\ options.branch = "test" /\ options.baseBranch = "dev"
  /\ refs["test"] = Len(commits)

(***************************************************************************)
(* C21. Until the updateReference request of a sync has succeeded, the     *)
(* target branch points at the commit it pointed to after branch           *)
(* resolution, whatever has failed, the step between a successful          *)
(* createCommit and updateReference included; what the sync has added to   *)
(* the store is blobs, trees and at most one commit that no reference      *)
(* reaches.                                                                *)
(***************************************************************************)
\* The commits, trees and blobs reached from the references r in the
\* tables c and t.
RECURSIVE CommitsFrom(_, _)
CommitsFrom(c, S) ==
  LET next == S \cup UNION {Range(c[h].parents) : h \in S}
  IN  IF next = S THEN S ELSE CommitsFrom(c, next)

RECURSIVE TreesFrom(_, _)
TreesFrom(t, S) ==
  LET next == S \cup {e.sha : e \in {x \in UNION {t[h] : h \in S} :
                                       x.type = "tree"}}
  IN  IF next = S THEN S ELSE TreesFrom(t, next)

ReferencedCommits(r, c) == CommitsFrom(c, {r[b] : b \in DOMAIN r} \ {0})
ReferencedTrees(r, c, t) ==
  TreesFrom(t, {c[h].tree : h \in ReferencedCommits(r, c)})
ReferencedBlobs(r, c, t) ==
  {e.sha : e \in {x \in UNION {t[h] : h \in ReferencedTrees(r, c, t)} :
                    x.type = "blob"}}

Unpublished == Succeeded("updateReference") = {}

\* Before the reference update: the branch is where branch resolution
\* found or put it, and the commit of the sync is reached by no reference.
C21_Unpublished ==
  Unpublished =>
    /\ \A h \in ResolvedAt : refs[options.branch] = h
    /\ Cardinality(Succeeded("createCommit")) <= 1
    /\ \A i \in Succeeded("createCommit") :
         /\ log[i].res = Len(commits)
         /\ log[i].res \notin ReferencedCommits(refs, commits)
    /\ run = 1 =>
         /\ Len(commits) <= Len(InitCommits) + 1
         /\ ResolvedAt = {} => refs \in InitRefs
         /\ \A b \in Branches \ {options.branch} :
              \E r \in InitRefs : refs[b] = r[b]
         /\ \A h \in ReferencedTrees(refs, commits, trees) :
              h <= Len(InitTrees)
         /\ \A h \in ReferencedBlobs(refs, commits, trees) :
              h <= Len(InitBlobs)

\* A step changes a reference only by a createReference or updateReference
\* request that succeeds; any other step keeps the objects of the store and
\* adds none that a reference reaches.
C21_Step ==
  /\ SubSeq(blobs', 1, Len(blobs)) = blobs
  /\ SubSeq(trees', 1, Len(trees)) = trees
  /\ SubSeq(commits', 1, Len(commits)) = commits
  /\ refs' # refs =>
       /\ Len(log') = Len(log) + 1
       /\ log'[Len(log')].ok
       /\ log'[Len(log')].op \in {"createReference", "updateReference"}
  /\ refs' = refs =>
       /\ ReferencedCommits(refs', commits') = ReferencedCommits(refs, commits)
       /\ ReferencedTrees(refs', commits', trees')
            = ReferencedTrees(refs, commits, trees)
       /\ ReferencedBlobs(refs', commits', trees')
            = ReferencedBlobs(refs, commits, trees)

C21_FailureLeavesBranch == [](C21_Unpublished) /\ [][C21_Step]_vars

\* The sync has failed between a successful createCommit and the reference
\* update; its commit is in the store and the branch is where it was.
C21_Witness ==
  /\ pc = "done" /\ result = "updateReference failed"
  /\ Succeeded("createCommit") # {}
  /\ Len(trees) > Len(InitTrees)
  /\ refs[options.branch] # Len(commits)
  /\ refs[options.branch] \in ResolvedAt

(***************************************************************************)
(* C22. The lookup of the target branch turns a getReference failure of    *)
(* code 404 into the not found value and propagates every other failure    *)
(* as the error of the sync; a failure of the getReference of baseBranch   *)
(* in createBranch, a 404 included, is the error of the sync, and no       *)
(* createReference is issued.                                              *)
(***************************************************************************)
C22_BranchLookupErrors ==
  \A i \in Issued("getReference") :
    ~log[i].ok =>
      IF log[i].by = "getBranchOrNull"
      THEN /\ i = 1
           /\ IF log[i].res = 404
              THEN /\ result # "getReference failed" \/ Len(log) > 1
                   /\ branch = None \/ Succeeded("createReference") # {}
                   /\ IF options.createBranch
                      THEN \/ pc = "createBranch" /\ result = "pending"
                           \/ /\ Len(log) > 1
                              /\ log[2].op = "getReference"
                              /\ log[2].by = "createBranch"
                      ELSE /\ pc = "done" /\ Len(log) = 1
                           /\ result = "Branch does not exist"
              ELSE /\ pc = "done" /\ Len(log) = 1
                   /\ result = "getReference failed"
      ELSE /\ log[i].by = "createBranch"
           /\ pc = "done" /\ i = Len(log)
           /\ result = "getReference failed"
           /\ Issued("createReference") = {}
           /\ branch = None

\* The target branch was not found, and neither was baseBranch.
C22_Witness ==
  /\ Len(log) = 2
  /\ log[1].by = "getBranchOrNull" /\ log[1].res = 404
  /\ log[2].by = "createBranch" /\ ~log[2].ok /\ log[2].res = 404
  /\ result = "getReference failed"

\* The lookup of the target branch failed with another code.
C22_WitnessOther ==
  /\ Len(log) = 1 /\ ~log[1].ok /\ log[1].res = 500
  /\ result = "getReference failed"

(***************************************************************************)
(* C23. Cached trees are never corrupted: every tree the cache of the sync *)
(* holds under a hash has the entry list the store returned for that hash, *)
(* also after the rebuild; the rebuild changes copies only.                *)
(***************************************************************************)
C23_CacheIntact ==
  \A h \in DOMAIN treeCache :
    /\ heap[treeCache[h]].sha = h
    /\ heap[treeCache[h]].tree = storeTree(trees, h).tree

(***************************************************************************)
(* C24. Path resolution reads each tree hash from the store at most once:  *)
(* every tree visited is in the cache under its hash before the next level *)
(* is resolved, a getTree request is issued only for a hash that is not in *)
(* the cache, and existingTreesForPath has made as many getTree requests   *)
(* as there are distinct hashes among the trees of its chain below the     *)
(* root.                                                                   *)
(***************************************************************************)
\* The getTree requests of existingTreesForPath (through getTree).
PathReads == {i \in Issued("getTree") : log[i].by = "getTree"}

C24_Resolving ==
  /\ \A i, j \in PathReads : log[i].arg.sha = log[j].arg.sha => i = j
  /\ \A i \in PathReads : \A j \in Issued("getTree") :
       j < i => log[j].arg.sha # log[i].arg.sha
  /\ pc = "existingTreesForPath" =>
       /\ \A i \in 1..(Len(Chain) - 1) :
            Chain[i] \in DOMAIN treeCache /\ treeCache[Chain[i]] = treesForPath[i]
       /\ Cardinality(PathReads) = Len(Chain) - 1
  /\ pc = "createNewTreeForPath" =>
       /\ DOMAIN treeCache = Range(Chain)
       /\ \A i \in PathReads : log[i].ok
       /\ Cardinality(PathReads) = Cardinality(Range(Chain) \ {OldRoot})
       /\ {log[i].arg.sha : i \in PathReads} = Range(Chain) \ {OldRoot}

\* A getTree request of the path resolution is for a hash the cache does
\* not hold once the tree above it has been put there.
C24_Step ==
  Len(log') = Len(log) + 1 /\ log'[Len(log')].by = "getTree" =>
    /\ log'[Len(log')].arg.sha \notin DOMAIN treeCache'
    /\ heap[treesForPath[Len(treesForPath)]].sha \in DOMAIN treeCache'

C24_ReadOnce == [](C24_Resolving) /\ [][C24_Step]_vars

\* A path resolved through three levels below the root, with three reads.
C24_Witness ==
  /\ pc = "createNewTreeForPath"
  /\ Len(Chain) = 4
  /\ Cardinality(PathReads) = 3
  /\ Cardinality(DOMAIN treeCache) = 4

(***************************************************************************)
(* C25. Sibling blob creations are order-independent: for a local          *)
(* directory and a merge base the entry list of the leaf createTree        *)
(* request, and so the hash of the leaf tree, is the same whatever the     *)
(* interleaving and completion order of the stat, readFile and createBlob  *)
(* of the files, and the request is issued only after the createBlob of    *)
(* every file has completed.                                               *)
(***************************************************************************)
\* The list determined by the listing and the merge base alone.
ListedChildren ==
  LET listing == Listing(options.localPath)
  IN  [j \in DOMAIN listing |->
         IF listing[j].isDirectory THEN Null
         ELSE Entry(listing[j].name, "100644", "blob",
                    BlobHash(listing[j].content))]

ExpectedLeaf == ListedChildren \o SortByPath(TakenOver)

C25_OrderIndependent ==
  \A i \in LeafRequests :
    /\ log[i].arg.tree = ExpectedLeaf
    /\ log[i].ok =>
         trees[log[i].res] = {e \in Range(ExpectedLeaf) : e # Null}
    /\ \A f \in LocalFiles :
         \E j \in Succeeded("createBlob") :
           j < i /\ log[j].arg.content = f.content
    /\ \A j \in Issued("createBlob") : j < i
    /\ Cardinality(Issued("createBlob")) = Cardinality(LocalFiles)

\* Two files whose blobs were created in the order opposite to the listing,
\* followed by the leaf request.
C25_Witness ==
  /\ LeafRequests # {}
  /\ options.localPath = "dist" /\ options.preserveRepoFiles
  /\ ExistingAtRepoPath # 0
  /\ \E i, j \in Succeeded("createBlob") :
       /\ i < j
       /\ log[i].arg.content = Listing("dist")[2].content
       /\ log[j].arg.content = Listing("dist")[1].content

(***************************************************************************)
(* C26. Stale parent under a concurrent writer: the sync reads the         *)
(* reference of the target branch once, at branch resolution.  When        *)
(* another writer advances the branch before the reference update of the   *)
(* sync, the sync still creates its commit with the commit it has read as  *)
(* the only parent and a root rebuilt from the tree of that commit, and    *)
(* issues updateReference with it; the tree it publishes is without the    *)
(* changes of the other writer.                                            *)
(***************************************************************************)
\* The commit of the other writer, when it has written.
OtherCommits == {h \in DOMAIN commits : commits[h].message = "other"}

\* The reads of the reference of the target branch.
BranchReads ==
  {i \in Issued("getReference") : log[i].arg.ref = <<"heads", options.branch>>}

C26_StaleParent ==
  /\ Cardinality({i \in BranchReads : log[i].by = "getBranchOrNull"}) <= 1
  /\ \A i \in BranchReads : i <= 2 /\ Stage(log[i]) = 1
  /\ \A i \in DOMAIN log : i > 1 /\ log[i].op = "getReference" =>
       log[i].by = "createBranch" /\ i = 2
  /\ \A i \in Issued("createCommit") :
       /\ Len(log[i].arg.parents) = 1
       /\ ResolvedAt = {log[i].arg.parents[1]}
       /\ commit.sha = log[i].arg.parents[1]
       /\ commit.tree.sha = commits[commit.sha].tree
       /\ log[i].arg.tree = NewRoot
       /\ OtherEntry \notin trees[log[i].arg.tree]
       /\ \A k \in OtherCommits : k \notin Range(log[i].arg.parents)
       /\ pathParts # <<>> =>
            OffPath(trees[log[i].arg.tree], pathParts[1])
              = OffPath(trees[OldRoot], pathParts[1])
  /\ \A j \in Issued("updateReference") :
       /\ j - 1 \in Succeeded("createCommit")
       /\ log[j].arg = [ref |-> <<"heads", options.branch>>,
                        sha |-> log[j - 1].res]
       /\ log[j].ok =>
            /\ refs[options.branch] = log[j].arg.sha
            /\ OtherEntry \notin trees[commits[refs[options.branch]].tree]
  /\ Succeeded("createCommit") # {} /\ pc \in {"createPullRequest", "done"} =>
       Issued("updateReference") # {}

\* The other writer has advanced the branch before the commit of the sync
\* was created, and the reference update of the sync has gone through.
C26_Witness ==
  /\ Succeeded("updateReference") # {}
  /\ \E k \in OtherCommits : \E i \in Succeeded("createCommit") :
       /\ k < log[i].res
       /\ commits[k].parents = log[i].arg.parents
       /\ refs[options.branch] = log[i].res

(***************************************************************************)
(* C27. Empty target path: when repoPath has no non-empty segment the      *)
(* resolved chain is the root alone, the root is the existing target, no   *)
(* ancestor createTree is issued and the new root is the snapshot tree     *)
(* itself; a committed sync replaces the root directory by the local       *)
(* files, or merges them into the entries of the root when                 *)
(* preserveRepoFiles is set.                                               *)
(***************************************************************************)
\* The entries of the local files, as the store has their blobs.
LocalEntries ==
  {Entry(f.name, "100644", "blob", BlobHash(f.content)) : f \in LocalFiles}

C27_EmptyTargetPath ==
  /\ compact(<<"">>) = <<>> /\ compact(<<"", "">>) = <<>>
  /\ pathParts = <<>> /\ pc # "validateOptions" =>
       /\ PathReads = {} /\ AncestorRequests = {}
       /\ result # "Could not find existing parent dir for repo path"
       /\ pc = "createNewTreeForPath" => Chain = <<OldRoot>>
       /\ LeafRequests # {} \/ pc \in {"readdir", "files"} =>
            /\ existingTree # 0
            /\ heap[existingTree].sha = OldRoot
            /\ ExistingAtRepoPath = OldRoot
       /\ \A i \in LeafRequests :
            log[i].arg.tree =
              ListedChildren \o
                (IF options.preserveRepoFiles
                 THEN SortByPath({e \in trees[OldRoot] :
                                    e.path \notin LocalFileNames})
                 ELSE <<>>)
       /\ Rebuilt =>
            \A i \in LeafRequests : log[i].ok /\ NewRoot = log[i].res
       /\ \A i \in Succeeded("createCommit") :
            trees[log[i].arg.tree] =
              LocalEntries \cup
                (IF options.preserveRepoFiles
                 THEN {e \in trees[OldRoot] : e.path \notin LocalFileNames}
                 ELSE {})

\* A sync to the root without preserveRepoFiles was committed: the root of
\* the branch holds the local files and nothing else.
C27_Witness ==
  /\ pathParts = <<>> /\ ~options.preserveRepoFiles
  /\ Succeeded("updateReference") # {}
  /\ trees[commits[refs[options.branch]].tree] = LocalEntries

\* The same with preserveRepoFiles: the entries of the root are kept.
C27_WitnessMerged ==
  /\ pathParts = <<>> /\ options.preserveRepoFiles
  /\ Succeeded("updateReference") # {}
  /\ \E e \in trees[commits[refs[options.branch]].tree] : e.path = "README"

(***************************************************************************)
(* C28. Path uniqueness is preserved: when the trees read from the store   *)
(* have pairwise distinct entry paths and the local directory holds only   *)
(* regular files, every entry list a sync submits in a createTree request, *)
(* the leaf in both merge modes and every rebuilt ancestor, has pairwise   *)
(* distinct paths.                                                         *)
(***************************************************************************)
DistinctPaths(entries) ==
  \A e1, e2 \in entries : e1.path = e2.path => e1 = e2

OnlyRegularFiles ==
  \A j \in DOMAIN Listing(options.localPath) :
    ~Listing(options.localPath)[j].isDirectory

StoreHadDistinctPaths == \A h \in DOMAIN InitTrees : DistinctPaths(InitTrees[h])

C28_PathUniqueness ==
  StoreHadDistinctPaths /\ OnlyRegularFiles =>
    /\ \A i \in Issued("createTree") :
         LET list == log[i].arg.tree
         IN  \A j, k \in DOMAIN list : list[j].path = list[k].path => j = k
    /\ \A h \in DOMAIN trees : DistinctPaths(trees[h])

\* A merge into an existing directory with a file of the same name as a
\* local one, rebuilt through two ancestors that had the segment.
C28_Witness ==
  /\ Cardinality(AncestorRequests) = 2
  /\ \A i \in Issued("createTree") : log[i].ok
  /\ OnlyRegularFiles /\ options.preserveRepoFiles
  /\ pathParts = <<"a", "b">>
  /\ \E f \in LocalFiles : \E e \in trees[ExistingAtRepoPath] : e.path = f.name

(***************************************************************************)
(* C29. Loading the entry point calls syncToGitHub with options that have  *)
(* no message: the call fails validation, so that loading issues no        *)
(* request and ends in a validation error.                                 *)
(***************************************************************************)
\* The sync is the one the entry point starts.
FromEntryPoint ==
  \E o \in EntryPointOptions : options \in {o, withDefaults(o)}

C29_EntryPointFails ==
  FromEntryPoint =>
    /\ log = <<>> /\ run = 1
    /\ blobs = InitBlobs /\ trees = InitTrees /\ commits = InitCommits
    /\ refs \in InitRefs /\ pulls = {}
    /\ pc \in {"validateOptions", "done"}
    /\ pc = "done" => result = "Must pass commit message in message"

\* The call of the entry point has ended.
C29_Witness ==
  /\ FromEntryPoint /\ pc = "done"
  /\ options.baseBranch = "master"
  /\ result \in ValidationErrors

====
